---- MODULE Spec2Model ----
(***************************************************************************)
(* Model of django/middleware/gzip.py (GZipMiddleware.process_response)    *)
(* and django/core/context_processors.py (context processors,              *)
(* LazyMessages).                                                          *)
(*                                                                         *)
(* Python strings that the code inspects (header values) are sequences of  *)
(* one-character strings, so that lower(), startswith(), "in", re.search   *)
(* and re.sub are computed character by character.                         *)
(***************************************************************************)
EXTENDS Integers, Sequences, FiniteSets, TLC

VARIABLES
    settings,     \* django.conf.settings (the values this code reads)
    request,      \* gzip: the request handed to process_response
    response,     \* gzip: the response as it is now (result of the last call)
    previous,     \* gzip: the response handed to the last call
    calls,        \* gzip: number of process_response applications so far
    creq,         \* context processors: the request (optional attributes)
    store,        \* context processors: messages held by user and session
    instances,    \* context processors: the LazyMessages instances created
    context,      \* context processors: result of the last processor call
    observed,     \* context processors: what the last LazyMessages operation saw
    exc           \* context processors: exception raised by the last call

vars == <<settings, request, response, previous, calls,
          creq, store, instances, context, observed, exc>>

gzipVars == <<request, response, previous, calls>>
ctxVars == <<creq, store, instances, context, observed, exc>>

(***************************************************************************)
(* Bounds                                                                  *)
(***************************************************************************)
\* body lengths range over MinLength - MaxSlack .. MinLength + MaxSlack
MaxSlack == 1
\* number of successive applications of process_response to one response
MaxCalls == 2
\* number of distinct values of the (truncated) md5 digest
DigestMod == 2
\* LazyMessages instances created per request
MaxInstances == 2
\* operations (iter/len/bool/unicode) performed per LazyMessages instance
MaxOps == 2
\* messages initially stored on the user / on the session
MaxMessages == 1

(***************************************************************************)
(* Python string helpers                                                   *)
(***************************************************************************)
UpperCase == <<"A", "B", "C", "D", "E", "F", "G", "H", "I", "J", "K", "L", "M", "N", "O", "P", "Q", "R", "S", "T", "U", "V", "W", "X", "Y", "Z">>
LowerCase == <<"a", "b", "c", "d", "e", "f", "g", "h", "i", "j", "k", "l", "m", "n", "o", "p", "q", "r", "s", "t", "u", "v", "w", "x", "y", "z">>
Digits == <<"0", "1", "2", "3", "4", "5", "6", "7", "8", "9">>

Range(s) == {s[i] : i \in 1..Len(s)}

\* str.lower() on one character
lowerChar(c) ==
    IF c \in Range(UpperCase)
    THEN LowerCase[CHOOSE i \in 1..26 : UpperCase[i] = c]
    ELSE c

\* str.lower()
lower(s) == [i \in 1..Len(s) |-> lowerChar(s[i])]

\* sub occurs in s at index i
OccursAt(s, sub, i) ==
    /\ i >= 1
    /\ i + Len(sub) - 1 <= Len(s)
    /\ \A j \in 1..Len(sub) : s[i + j - 1] = sub[j]

\* Python's "sub in s"
contains(s, sub) == \E i \in 1..(Len(s) + 1) : OccursAt(s, sub, i)

\* str.startswith
startswith(s, prefix) == OccursAt(s, prefix, 1)

\* str.endswith
endswith(s, suffix) == OccursAt(s, suffix, Len(s) - Len(suffix) + 1)

\* \w of the re module
IsWordChar(c) ==
    c \in Range(UpperCase) \cup Range(LowerCase) \cup Range(Digits) \cup {"_"}

\* str(n) for a natural number n
RECURSIVE str(_)
str(n) == IF n < 10 THEN <<Digits[n + 1]>>
          ELSE str(n \div 10) \o <<Digits[(n % 10) + 1]>>

\* dict.get(key, default)
Get(d, k, default) == IF k \in DOMAIN d THEN d[k] ELSE default

EmptyDict == [k \in {} |-> <<>>]

(***************************************************************************)
(* Framework pieces used by the middleware                                 *)
(***************************************************************************)
\* HttpResponse.has_header
has_header(r, name) == name \in DOMAIN r.headers

\* HttpResponse.__setitem__
SetHeader(r, name, value) ==
    [r EXCEPT !.headers = (name :> value) @@ r.headers]

\* HttpResponse.__delitem__ (a missing header is ignored)
DelHeader(r, name) ==
    [r EXCEPT !.headers = [k \in (DOMAIN r.headers) \ {name} |-> r.headers[k]]]

\* hasattr(response, 'content') / hasattr(response, 'streaming_content')
hasattr(r, attr) ==
    \/ attr = "content" /\ r.kind = "content"
    \/ attr = "streaming_content" /\ r.kind = "streaming"

Whitespace == {" ", "\t"}

RECURSIVE lstrip(_)
lstrip(s) == IF s # <<>> /\ Head(s) \in Whitespace THEN lstrip(Tail(s)) ELSE s

RECURSIVE rstrip(_)
rstrip(s) ==
    IF s # <<>> /\ s[Len(s)] \in Whitespace
    THEN rstrip(SubSeq(s, 1, Len(s) - 1))
    ELSE s

\* s.split(',') : the pieces between commas, in order
RECURSIVE splitComma(_, _)
splitComma(s, cur) ==
    IF s = <<>> THEN <<cur>>
    ELSE IF Head(s) = "," THEN <<cur>> \o splitComma(Tail(s), <<>>)
    ELSE splitComma(Tail(s), Append(cur, Head(s)))

\* cc_delim_re.split(s) with cc_delim_re = \s*,\s* : whitespace next to a
\* comma belongs to the delimiter
cc_delim_split(s) ==
    LET raw == splitComma(s, <<>>)
        n == Len(raw)
    IN [i \in 1..n |->
          LET a == IF i > 1 THEN lstrip(raw[i]) ELSE raw[i]
          IN IF i < n THEN rstrip(a) ELSE a]

\* ', '.join(items)
RECURSIVE join(_)
join(items) ==
    IF items = <<>> THEN <<>>
    ELSE IF Len(items) = 1 THEN items[1]
    ELSE items[1] \o <<",", " ">> \o join(Tail(items))

AcceptEncodingName == <<"A", "c", "c", "e", "p", "t", "-", "E", "n", "c", "o", "d", "i", "n", "g">>

\* django.utils.cache.patch_vary_headers(response, newheaders)
patch_vary_headers(r, newheaders) ==
    LET vary_headers == IF has_header(r, "Vary")
                        THEN cc_delim_split(r.headers["Vary"])
                        ELSE <<>>
        existing_headers == {lower(vary_headers[i]) : i \in 1..Len(vary_headers)}
        additional_headers ==
            SelectSeq(newheaders, LAMBDA h : lower(h) \notin existing_headers)
    IN SetHeader(r, "Vary", join(vary_headers \o additional_headers))

\* bytes gzip adds around data it cannot shrink (header and trailer)
GzipOverhead == 18

\* the body of an HttpResponseNotModified: ''
EmptyBody == [len |-> 0, zlen |-> GzipOverhead, gz |-> 0]

\* placeholder for the streaming_content of a response that has none
NoStream == [chunks |-> 0, consumed |-> 0, gz |-> 0]

\* django.utils.text.compress_string: a body of length len becomes the gzip
\* data of length zlen; gzip data does not shrink when compressed again
compress_string(c) ==
    [len |-> c.zlen, zlen |-> c.zlen + GzipOverhead, gz |-> c.gz + 1]

\* django.utils.text.compress_sequence: a generator; nothing is read from the
\* wrapped sequence until the result is iterated
compress_sequence(sc) == [sc EXCEPT !.gz = @ + 1]

\* http.HttpResponseNotModified(): a new response object
HttpResponseNotModified(newid) ==
    [id |-> newid, cls |-> "HttpResponseNotModified", kind |-> "content",
     status |-> 304, headers |-> EmptyDict, content |-> EmptyBody,
     streaming_content |-> NoStream, cookies |-> {}]

RECURSIVE SumLens(_, _)
SumLens(h, names) ==
    IF names = {} THEN 0
    ELSE LET k == CHOOSE x \in names : TRUE
         IN Len(h[k]) + 1 + SumLens(h, names \ {k})

HexDigits == <<"0", "1", "2", "3", "4", "5", "6", "7", "8", "9", "a", "b", "c", "d", "e", "f">>

\* hashlib.md5(response.serialize()).hexdigest(): a digest of the header
\* lines and the body, truncated to DigestMod values
md5_hexdigest(r) ==
    <<HexDigits[((SumLens(r.headers, DOMAIN r.headers) + r.content.len)
                 % DigestMod) + 1]>>

Quote == "\""
GzipSuffix == <<";", "g", "z", "i", "p", "\"">>

\* re.sub(r'"$', ';gzip"', s)
re_sub_gzip(s) ==
    IF s # <<>> /\ s[Len(s)] = Quote
    THEN SubSeq(s, 1, Len(s) - 1) \o GzipSuffix
    ELSE s

(***************************************************************************)
(* django/middleware/gzip.py                                               *)
(***************************************************************************)
MinLength == 200

GzipWord == <<"g", "z", "i", "p">>

\* re_accepts_gzip.search(ae) with re_accepts_gzip = \bgzip\b
re_accepts_gzipNoBoundary(ae) == contains(ae, GzipWord)

re_accepts_gzip(ae) ==
    \E i \in 1..Len(ae) :
        /\ OccursAt(ae, GzipWord, i)
        /\ (i = 1 \/ ~IsWordChar(ae[i - 1]))
        /\ (i + 4 > Len(ae) \/ ~IsWordChar(ae[i + 4]))

\* line 19: hasattr(response, 'content') and len(response.content) < 200
IsShortOffByOne(r) == hasattr(r, "content") /\ r.content.len < MinLength - 1

IsShort(r) == hasattr(r, "content") /\ r.content.len < MinLength

\* line 25: response.has_header('Content-Encoding')
AlreadyEncodedTypo(r) == has_header(r, "Content-Encodings")

AlreadyEncoded(r) == has_header(r, "Content-Encoding")

\* lines 29-32: MSIE and a content type that is not text/* or is javascript
MsieExcluded(req, r) ==
    /\ contains(lower(Get(req.META, "HTTP_USER_AGENT", <<>>)), <<"m", "s", "i", "e">>)
    /\ LET ctype == lower(Get(r.headers, "Content-Type", <<>>))
       IN ~startswith(ctype, <<"t", "e", "x", "t", "/">>) \/ contains(ctype, <<"j", "a", "v", "a", "s", "c", "r", "i", "p", "t">>)

\* lines 34-36
AcceptsGzip(req) ==
    re_accepts_gzip(Get(req.META, "HTTP_ACCEPT_ENCODING", <<>>))

\* line 41: the compressed content is not shorter
NotShorterStrict(r) == compress_string(r.content).len > r.content.len

NotShorter(r) == compress_string(r.content).len >= r.content.len

\* lines 43-44 and 55
CompressContent(r) ==
    LET r1 == [r EXCEPT !.content = compress_string(r.content)]
        r2 == SetHeader(r1, "Content-Length", str(r1.content.len))
    IN SetHeader(r2, "Content-Encoding", GzipWord)

\* lines 48-50 and 55
CompressStreamingEager(r) ==
    LET sc == compress_sequence(r.streaming_content)
        r1 == [r EXCEPT !.streaming_content = [sc EXCEPT !.consumed = sc.chunks]]
        r2 == DelHeader(r1, "Content-Length")
    IN SetHeader(r2, "Content-Encoding", GzipWord)

CompressStreaming(r) ==
    LET r1 == [r EXCEPT !.streaming_content = compress_sequence(@)]
        r2 == DelHeader(r1, "Content-Length")
    IN SetHeader(r2, "Content-Encoding", GzipWord)

\* lines 59-63: <<TRUE, etag>> when the local variable etag gets bound
gzip_etag(r) ==
    IF hasattr(r, "content")
    THEN <<TRUE, <<Quote>> \o md5_hexdigest(r) \o GzipSuffix>>
    ELSE IF has_header(r, "ETag")
    THEN <<TRUE, re_sub_gzip(r.headers["ETag"])>>
    ELSE <<FALSE, <<>> >>

\* lines 64-69
ConditionalDropCookies(req, r, etag) ==
    IF /\ 200 <= r.status /\ r.status < 300
       /\ "HTTP_IF_NONE_MATCH" \in DOMAIN req.META
       /\ req.META["HTTP_IF_NONE_MATCH"] = etag
    THEN HttpResponseNotModified(r.id + 1)
    ELSE SetHeader(r, "ETag", etag)

Conditional(req, r, etag) ==
    IF /\ 200 <= r.status /\ r.status < 300
       /\ "HTTP_IF_NONE_MATCH" \in DOMAIN req.META
       /\ req.META["HTTP_IF_NONE_MATCH"] = etag
    THEN [HttpResponseNotModified(r.id + 1) EXCEPT !.cookies = r.cookies]
    ELSE SetHeader(r, "ETag", etag)

\* lines 57-69
UseETags(conf, req, r) ==
    IF conf.USE_ETAGS
    THEN LET e == gzip_etag(r)
         IN IF e[1] THEN Conditional(req, r, e[2]) ELSE r
    ELSE r

\* GZipMiddleware.process_response(request, response)
process_responseVaryLate(conf, req, r) ==
    IF IsShort(r) THEN r
    ELSE IF AlreadyEncoded(r) THEN r
    ELSE
      LET r1 == patch_vary_headers(r, <<AcceptEncodingName>>) IN
      IF MsieExcluded(req, r1) THEN r1
      ELSE IF ~AcceptsGzip(req) THEN r1
      ELSE IF hasattr(r1, "content")
           THEN IF NotShorter(r1) THEN r1
                ELSE UseETags(conf, req, CompressContent(r1))
      ELSE IF hasattr(r1, "streaming_content")
           THEN UseETags(conf, req, CompressStreaming(r1))
      ELSE r1

process_response(conf, req, r) ==
    IF IsShort(r) THEN r
    ELSE
      LET r1 == patch_vary_headers(r, <<AcceptEncodingName>>) IN
      IF AlreadyEncoded(r1) THEN r1
      ELSE IF MsieExcluded(req, r1) THEN r1
      ELSE IF ~AcceptsGzip(req) THEN r1
      ELSE IF hasattr(r1, "content")
           THEN IF NotShorter(r1) THEN r1
                ELSE UseETags(conf, req, CompressContent(r1))
      ELSE IF hasattr(r1, "streaming_content")
           THEN UseETags(conf, req, CompressStreaming(r1))
      ELSE r1

(***************************************************************************)
(* django/core/context_processors.py                                       *)
(***************************************************************************)
NoException == "none"
AttributeError == "AttributeError"

\* hasattr(request, name)
request_hasattr(rq, name) == name \in rq.attrs

\* hasattr(request.user, 'get_and_delete_messages') and the same for session
object_hasattr(rq, obj, name) == name \in rq.methods[obj]

\* LazyMessages.__init__
LazyMessages(rq) ==
    [cached |-> FALSE, _messages |-> <<>>, userCalls |-> 0, sessCalls |-> 0,
     ops |-> 0]

\* LazyMessages._get_messages: the instance, the stores and the outcome after
\* one evaluation of the messages property
_get_messagesNoMemo(rq, inst, st) ==
    LET viaUser == /\ request_hasattr(rq, "user")
                   /\ object_hasattr(rq, "user", "get_and_delete_messages")
        m1 == IF viaUser THEN st.user ELSE <<>>
        st1 == IF viaUser THEN [st EXCEPT !.user = <<>>] ELSE st
        i1 == [inst EXCEPT !.cached = TRUE, !._messages = m1,
                           !.userCalls = @ + (IF viaUser THEN 1 ELSE 0)]
    IN IF ~request_hasattr(rq, "session")
       THEN [inst |-> i1, store |-> st1, exc |-> NoException, value |-> m1]
       ELSE IF ~object_hasattr(rq, "session", "get_and_delete_messages")
       THEN [inst |-> i1, store |-> st1, exc |-> AttributeError,
             value |-> <<>>]
       ELSE [inst |-> [i1 EXCEPT !._messages = m1 \o st1.session,
                                 !.sessCalls = @ + 1],
             store |-> [st1 EXCEPT !.session = <<>>],
             exc |-> NoException, value |-> m1 \o st1.session]

_get_messages(rq, inst, st) ==
    IF inst.cached
    THEN [inst |-> inst, store |-> st, exc |-> NoException,
          value |-> inst._messages]
    ELSE _get_messagesNoMemo(rq, inst, st)

\* messages(request)
messages(rq, idx) ==
    IF request_hasattr(rq, "session") \/ request_hasattr(rq, "user")
    THEN ("messages" :> <<"LazyMessages", idx>>)
    ELSE EmptyDict

\* auth(request)
auth(rq, idx) ==
    LET user == IF request_hasattr(rq, "user")
                THEN <<"request.user">>
                ELSE <<"AnonymousUser">>
    IN messages(rq, idx) @@
       ("user" :> user) @@ ("perms" :> <<"PermWrapper">> \o user)

\* debug(request)
debug(conf, rq) ==
    IF conf.DEBUG /\ Get(rq.META, "REMOTE_ADDR", "None") \in conf.INTERNAL_IPS
    THEN ("debug" :> <<TRUE>>) @@ ("sql_queries" :> <<"connection.queries">>)
    ELSE EmptyDict

\* i18n(request)
i18n(conf, rq) ==
    ("LANGUAGES" :> <<conf.LANGUAGES>>) @@
    ("LANGUAGE_CODE" :> IF request_hasattr(rq, "LANGUAGE_CODE")
                        THEN <<rq.LANGUAGE_CODE>>
                        ELSE <<conf.LANGUAGE_CODE>>) @@
    ("LANGUAGE_BIDI" :> <<"translation.get_language_bidi()">>)

\* media(request)
media(conf, rq) == ("MEDIA_URL" :> <<conf.MEDIA_URL>>)

\* request(request)
request_processor(rq) == ("request" :> <<"request">>)

(***************************************************************************)
(* Inputs                                                                  *)
(***************************************************************************)
\* a header or META key that is absent, or present with one of the values
Optional(name, values) == {EmptyDict} \cup {name :> v : v \in values}

UserAgents == {<<"M", "S", "I", "E", " ", "6", ".", "0">>}
AcceptEncodings == {<<"d", "e", "f", "l", "a", "t", "e">>, <<"g", "z", "i", "p">>, <<"x", "g", "z", "i", "p">>}
StreamETag == <<"\"", "a", "\"">>
\* If-None-Match values: every tagged digest, and the tagged stream ETag
IfNoneMatches ==
    {<<Quote>> \o <<HexDigits[d + 1]>> \o GzipSuffix : d \in 0..(DigestMod - 1)}
    \cup {re_sub_gzip(StreamETag)}

Metas ==
    {ua @@ ae @@ inm :
        ua \in Optional("HTTP_USER_AGENT", UserAgents),
        ae \in Optional("HTTP_ACCEPT_ENCODING", AcceptEncodings),
        inm \in Optional("HTTP_IF_NONE_MATCH", IfNoneMatches)}

Requests == {[META |-> m] : m \in Metas}

ZDeltas == {-1, 0, 1}

Bodies ==
    {[len |-> n, zlen |-> n + d, gz |-> 0] :
        n \in (MinLength - MaxSlack)..(MinLength + MaxSlack), d \in ZDeltas}

Streams == {[chunks |-> 2, consumed |-> 0, gz |-> 0]}

HeaderSets ==
    {ce @@ ct @@ va @@ et :
        ce \in Optional("Content-Encoding", {GzipWord}),
        ct \in Optional("Content-Type", {<<"t", "e", "x", "t", "/", "h", "t", "m", "l">>, <<"T", "e", "x", "t", "/", "J", "a", "v", "a", "S", "c", "r", "i", "p", "t">>}),
        va \in Optional("Vary", {<<"C", "o", "o", "k", "i", "e">>, <<"c", "o", "o", "k", "i", "e", ",", "a", "c", "c", "e", "p", "t", "-", "e", "n", "c", "o", "d", "i", "n", "g">>}),
        et \in Optional("ETag", {StreamETag, <<"a">>})}

StatusCodes == {200, 299, 300}
CookieJars == {{}, {"sessionid"}}

ContentResponses ==
    {[id |-> 0, cls |-> "HttpResponse", kind |-> "content", status |-> st,
      headers |-> ("Content-Length" :> str(b.len)) @@ h, content |-> b,
      streaming_content |-> NoStream, cookies |-> ck] :
        b \in Bodies, h \in HeaderSets, st \in StatusCodes, ck \in CookieJars}

StreamingResponses ==
    {[id |-> 0, cls |-> "StreamingHttpResponse", kind |-> "streaming",
      status |-> st, headers |-> cl @@ h, content |-> EmptyBody,
      streaming_content |-> sc, cookies |-> ck] :
        sc \in Streams, cl \in Optional("Content-Length", {str(MinLength)}),
        h \in HeaderSets, st \in StatusCodes, ck \in CookieJars}

\* a response object with neither content nor streaming_content
OtherResponses ==
    {[id |-> 0, cls |-> "object", kind |-> "other", status |-> st,
      headers |-> h, content |-> EmptyBody, streaming_content |-> NoStream,
      cookies |-> ck] :
        h \in HeaderSets, st \in StatusCodes, ck \in CookieJars}

Responses == ContentResponses \cup StreamingResponses \cup OtherResponses

Settings ==
    [USE_ETAGS : BOOLEAN, DEBUG : BOOLEAN, INTERNAL_IPS : {{"127.0.0.1"}},
     LANGUAGES : {"settings.LANGUAGES"}, LANGUAGE_CODE : {"en-us"},
     MEDIA_URL : {"/media/"}]

\* the messages a store holds: none, or the first k of its messages
Stored(owner) == {[i \in 1..k |-> <<owner, i>>] : k \in 0..MaxMessages}

Stores == [user : Stored("user"), session : Stored("session")]

MessageMethods == {{}, {"get_and_delete_messages"}}

\* requests with every combination of the optional attributes; an object that
\* is absent has no methods
ContextRequests ==
    {rq \in [attrs : SUBSET {"user", "session", "LANGUAGE_CODE"},
             methods : [{"user", "session"} -> MessageMethods],
             LANGUAGE_CODE : {"fr"},
             META : Optional("REMOTE_ADDR", {"127.0.0.1"})] :
        \A o \in {"user", "session"} : o \notin rq.attrs => rq.methods[o] = {}}

NoObservation == [op |-> "none", inst |-> 0, messages |-> <<>>, value |-> <<>>]

(***************************************************************************)
(* GZip middleware: process_response applied to one response, repeatedly   *)
(***************************************************************************)
IdleContext ==
    /\ creq = [attrs |-> {}, methods |-> [o \in {"user", "session"} |-> {}],
               LANGUAGE_CODE |-> "fr", META |-> EmptyDict]
    /\ store = [user |-> <<>>, session |-> <<>>]
    /\ instances = <<>>
    /\ context = EmptyDict
    /\ observed = NoObservation
    /\ exc = NoException

InitGZip ==
    /\ settings \in {c \in Settings : ~c.DEBUG}
    /\ request \in Requests
    /\ response \in Responses
    /\ previous = response
    /\ calls = 0
    /\ IdleContext

ProcessResponse ==
    /\ calls < MaxCalls
    /\ previous' = response
    /\ response' = process_response(settings, request, response)
    /\ calls' = calls + 1
    /\ UNCHANGED <<settings, request, ctxVars>>

NextGZip == ProcessResponse

SpecGZip == InitGZip /\ [][NextGZip]_vars

(***************************************************************************)
(* Context processors and the LazyMessages they hand out                   *)
(***************************************************************************)
IdleGZip ==
    /\ request = [META |-> EmptyDict]
    /\ response = HttpResponseNotModified(0)
    /\ previous = response
    /\ calls = 0

InitCtx ==
    /\ settings \in {c \in Settings : ~c.USE_ETAGS}
    /\ creq \in ContextRequests
    /\ store \in {st \in Stores :
                    \A o \in {"user", "session"} :
                        creq.methods[o] = {} => st[o] = <<>>}
    /\ instances = <<>>
    /\ context = EmptyDict
    /\ observed = NoObservation
    /\ exc = NoException
    /\ IdleGZip

\* a processor that hands out a LazyMessages creates a new instance
Processed(ctx) ==
    /\ context' = ctx
    /\ exc' = NoException
    /\ instances' = IF "messages" \in DOMAIN ctx
                    THEN Append(instances, LazyMessages(creq))
                    ELSE instances
    /\ UNCHANGED <<settings, creq, store, observed, gzipVars>>

Auth ==
    /\ Len(instances) < MaxInstances
    /\ Processed(auth(creq, Len(instances) + 1))

Messages ==
    /\ Len(instances) < MaxInstances
    /\ Processed(messages(creq, Len(instances) + 1))

Debug == Processed(debug(settings, creq))

I18n == Processed(i18n(settings, creq))

Media == Processed(media(settings, creq))

RequestProcessor == Processed(request_processor(creq))

\* one of __iter__, __len__, __nonzero__, __unicode__ on instance i; each
\* reads the messages property and converts the list
Consume(i, op) ==
    /\ instances[i].ops < MaxOps
    /\ LET r == _get_messages(creq, instances[i], store)
       IN /\ instances' = [instances EXCEPT ![i] = [r.inst EXCEPT !.ops = @ + 1]]
          /\ store' = r.store
          /\ exc' = r.exc
          /\ observed' =
               [op |-> op, inst |-> i, messages |-> r.value,
                value |-> IF r.exc # NoException THEN <<>>
                          ELSE IF op = "__len__" THEN <<Len(r.value)>>
                          ELSE IF op = "__nonzero__" THEN <<r.value # <<>> >>
                          ELSE r.value]
    /\ UNCHANGED <<settings, creq, context, gzipVars>>

Iterate == \E i \in 1..Len(instances) : Consume(i, "__iter__")

Length == \E i \in 1..Len(instances) : Consume(i, "__len__")

Nonzero == \E i \in 1..Len(instances) : Consume(i, "__nonzero__")

Unicode == \E i \in 1..Len(instances) : Consume(i, "__unicode__")

NextCtx ==
    \/ Auth \/ Messages \/ Debug \/ I18n \/ Media \/ RequestProcessor
    \/ Iterate \/ Length \/ Nonzero \/ Unicode

SpecCtx == InitCtx /\ [][NextCtx]_vars

(***************************************************************************)
(* Properties of GZipMiddleware.process_response (under SpecGZip)          *)
(*                                                                         *)
(* After a call, previous is the response that was handed in and response  *)
(* is the response that was returned.                                      *)
(***************************************************************************)
Called == calls >= 1

HeaderOf(r, name) == Get(r.headers, name, <<>>)

\* the response without its Vary header
ExceptVary(r) ==
    [r EXCEPT !.headers = [k \in (DOMAIN r.headers) \ {"Vary"} |-> r.headers[k]]]

\* Accept-Encoding is one of the names listed in the Vary header
VaryHasAcceptEncoding(r) ==
    /\ "Vary" \in DOMAIN r.headers
    /\ \E i \in 1..Len(cc_delim_split(r.headers["Vary"])) :
          lower(cc_delim_split(r.headers["Vary"])[i]) = lower(AcceptEncodingName)

\* the body (content) is shorter than 200 bytes
ShortBody(r) == r.kind = "content" /\ r.content.len < 200

\* the Accept-Encoding request header lists the gzip coding
HasGzipToken(req) ==
    LET tokens == cc_delim_split(Get(req.META, "HTTP_ACCEPT_ENCODING", <<>>))
    IN \E i \in 1..Len(tokens) : tokens[i] = GzipWord

\* the User-Agent names MSIE
IsMsie(req) ==
    contains(lower(Get(req.META, "HTTP_USER_AGENT", <<>>)), <<"m", "s", "i", "e">>)

IsNotModified(r) == r.cls = "HttpResponseNotModified"

\* the request's If-None-Match header equals etag
IfNoneMatchIs(req, etag) ==
    /\ "HTTP_IF_NONE_MATCH" \in DOMAIN req.META
    /\ req.META["HTTP_IF_NONE_MATCH"] = etag

\* C1: a response whose body is shorter than 200 bytes is returned with no
\* change at all, whatever the request headers and USE_ETAGS are.
C1_ShortUnchanged ==
    (Called /\ ShortBody(previous)) => response = previous

C1_Witness ==
    /\ Called
    /\ ShortBody(previous)
    /\ HasGzipToken(request)
    /\ IsMsie(request)
    /\ settings.USE_ETAGS
    /\ "Vary" \notin DOMAIN previous.headers
    /\ "Content-Encoding" \notin DOMAIN previous.headers
    /\ response = previous

\* the size of the body handed in, and the size gzip gives it
OriginalSize == previous.content.len
CompressedSize == compress_string(previous.content).len

\* the returned response has a body other than the one handed in, or has
\* gained Content-Encoding: gzip
BodyReplaced ==
    \/ response.content # previous.content
    \/ /\ "Content-Encoding" \notin DOMAIN previous.headers
       /\ HeaderOf(response, "Content-Encoding") = GzipWord

\* C2 as stated: the body is replaced by compressed data (and Content-Encoding
\* set) only when the compressed size is strictly smaller than the original
\* size; when it is not smaller the output is the original response.
C2_Original ==
    (Called /\ previous.kind = "content") =>
        /\ BodyReplaced => CompressedSize < OriginalSize
        /\ CompressedSize >= OriginalSize => response = previous

\* C2 amended: ... when it is not smaller the output is the original response
\* except for its Vary header.
C2_CompressOnlyIfSmaller ==
    (Called /\ previous.kind = "content") =>
        /\ BodyReplaced => CompressedSize < OriginalSize
        /\ CompressedSize >= OriginalSize =>
              ExceptVary(response) = ExceptVary(previous)

C2_Witness ==
    /\ Called
    /\ previous.kind = "content"
    /\ ~ShortBody(previous)
    /\ "Content-Encoding" \notin DOMAIN previous.headers
    /\ HasGzipToken(request)
    /\ ~IsMsie(request)
    /\ CompressedSize = OriginalSize
    /\ response.content = previous.content
    /\ response # previous

\* C3: whenever gzip is attempted (the response is not passed through for
\* being short), the returned response has Accept-Encoding in its Vary header.
C3_VaryAlways ==
    (Called /\ ~ShortBody(previous)) => VaryHasAcceptEncoding(response)

\* the response was compressed by the call: it passed every rejection check
WasCompressed ==
    /\ Called
    /\ previous.kind \in {"content", "streaming"}
    /\ ~ShortBody(previous)
    /\ "Content-Encoding" \notin DOMAIN previous.headers
    /\ ~MsieExcluded(request, previous)
    /\ HasGzipToken(request)
    /\ previous.kind = "content" => CompressedSize < OriginalSize

\* the response as it is handed to the ETag step
BeforeETag ==
    LET r1 == patch_vary_headers(previous, <<AcceptEncodingName>>)
    IN IF previous.kind = "content" THEN CompressContent(r1)
       ELSE CompressStreaming(r1)

\* with ETag etag: a matching If-None-Match on a 2xx response gives a
\* not-modified response with the cookies handed in, anything else the
\* original response with ETag set to etag
ETagOutcome(etag) ==
    IF IfNoneMatchIs(request, etag) /\ previous.status \in 200..299
    THEN /\ IsNotModified(response)
         /\ response.status = 304
         /\ response.cookies = previous.cookies
    ELSE /\ response.id = previous.id
         /\ response = SetHeader(BeforeETag, "ETag", etag)

\* C4 as stated: with USE_ETAGS, when the body was compressed the ETag is
\* tagged with ;gzip, and the result is the not-modified response or the
\* original response carrying the tagged ETag.
C4_Original ==
    (WasCompressed /\ settings.USE_ETAGS) =>
        LET e == gzip_etag(BeforeETag)
        IN /\ e[1]
           /\ endswith(e[2], GzipSuffix)
           /\ ETagOutcome(e[2])

\* a streaming response whose ETag header ends with a double quote
HasQuotedETag(r) ==
    /\ "ETag" \in DOMAIN r.headers
    /\ endswith(r.headers["ETag"], <<Quote>>)

\* C4 amended: the above holds for a response with content, and for a
\* streaming response that has an ETag header ending in a double quote; a
\* streaming response without ETag header is returned compressed with no ETag,
\* and an ETag header without closing quote is used as it is, untagged.
C4_ETag ==
    (WasCompressed /\ settings.USE_ETAGS) =>
        LET e == gzip_etag(BeforeETag)
        IN IF previous.kind = "content" \/ HasQuotedETag(previous)
           THEN /\ e[1]
                /\ endswith(e[2], GzipSuffix)
                /\ ETagOutcome(e[2])
           ELSE IF "ETag" \in DOMAIN previous.headers
           THEN ETagOutcome(previous.headers["ETag"])
           ELSE response = BeforeETag /\ "ETag" \notin DOMAIN response.headers

C4_Witness ==
    /\ WasCompressed
    /\ settings.USE_ETAGS
    /\ previous.kind = "content"
    /\ previous.cookies # {}
    /\ IsNotModified(response)
    /\ response.cookies = previous.cookies

\* C7: without a gzip token in Accept-Encoding (absent header included) the
\* returned response has the same body or stream, the same Content-Length
\* and no Content-Encoding header added.
C7_NoGzipNoCompression ==
    (Called /\ ~HasGzipToken(request)) =>
        /\ response.id = previous.id
        /\ response.content = previous.content
        /\ response.streaming_content = previous.streaming_content
        /\ ("Content-Length" \in DOMAIN response.headers)
              = ("Content-Length" \in DOMAIN previous.headers)
        /\ HeaderOf(response, "Content-Length") = HeaderOf(previous, "Content-Length")
        /\ ("Content-Encoding" \in DOMAIN response.headers)
              = ("Content-Encoding" \in DOMAIN previous.headers)

C7_Witness ==
    /\ Called
    /\ "HTTP_ACCEPT_ENCODING" \in DOMAIN request.META
    /\ ~HasGzipToken(request)
    /\ previous.kind = "content"
    /\ ~ShortBody(previous)
    /\ CompressedSize < OriginalSize
    /\ "Content-Encoding" \notin DOMAIN previous.headers
    /\ ~IsMsie(request)
    /\ response.content = previous.content

\* C8 as stated: a response that already has a Content-Encoding header is
\* returned equal to the input in body, status and every header.
C8_Original ==
    (Called /\ "Content-Encoding" \in DOMAIN previous.headers) =>
        response = previous

\* C8 amended: ... equal to the input in body, status and every header except
\* Vary; unless the body is shorter than 200 bytes (nothing changes), Vary is
\* rewritten and lists Accept-Encoding.
C8_EncodedPassThrough ==
    (Called /\ "Content-Encoding" \in DOMAIN previous.headers) =>
        /\ ExceptVary(response) = ExceptVary(previous)
        /\ ShortBody(previous) => response = previous
        /\ ~ShortBody(previous) => VaryHasAcceptEncoding(response)

C8_Witness ==
    /\ Called
    /\ "Content-Encoding" \in DOMAIN previous.headers
    /\ ~ShortBody(previous)
    /\ previous.kind = "content"
    /\ CompressedSize < OriginalSize
    /\ HasGzipToken(request)
    /\ response # previous
    /\ response.content = previous.content

\* a streaming response that passes the rejection checks
StreamingAccepted ==
    /\ Called
    /\ previous.kind = "streaming"
    /\ "Content-Encoding" \notin DOMAIN previous.headers
    /\ ~MsieExcluded(request, previous)
    /\ HasGzipToken(request)

\* the stream is wrapped unread, Content-Length is gone, Content-Encoding is gzip
StreamWrapped ==
    /\ response.id = previous.id
    /\ response.streaming_content.gz = previous.streaming_content.gz + 1
    /\ response.streaming_content.chunks = previous.streaming_content.chunks
    /\ response.streaming_content.consumed = previous.streaming_content.consumed
    /\ "Content-Length" \notin DOMAIN response.headers
    /\ HeaderOf(response, "Content-Encoding") = GzipWord

\* C9 as stated: an accepted streaming response is returned with its stream
\* wrapped unread, without Content-Length and with Content-Encoding: gzip.
C9_Original == StreamingAccepted => StreamWrapped

\* C9 amended: ... unless ETag support short-circuits to a not-modified
\* response (USE_ETAGS, ETag header present, If-None-Match present, 2xx).
C9_Streaming ==
    StreamingAccepted =>
        \/ StreamWrapped
        \/ /\ IsNotModified(response)
           /\ settings.USE_ETAGS
           /\ "ETag" \in DOMAIN previous.headers
           /\ IfNoneMatchIs(request, re_sub_gzip(previous.headers["ETag"]))
           /\ previous.status \in 200..299

C9_Witness ==
    /\ StreamingAccepted
    /\ "Content-Length" \in DOMAIN previous.headers
    /\ StreamWrapped

\* C10: applying process_response again, with the same request, to the
\* response it returned gives an equal response.
C10_Idempotent == calls >= 2 => response = previous

C10_Witness ==
    /\ calls >= 2
    /\ response = previous
    /\ response.content.gz = 1
    /\ response.content.len >= MinLength
    /\ settings.USE_ETAGS
    /\ "ETag" \in DOMAIN response.headers

(***************************************************************************)
(* Properties of the context processors (under SpecCtx)                    *)
(***************************************************************************)
Instances == 1..Len(instances)

\* C5: get_and_delete_messages is not invoked before the first operation on
\* an instance, each of the two is invoked at most once per instance, and
\* once the list is memoised every operation sees that list.
C5_ComputedOnce ==
    /\ [](\A i \in Instances :
             /\ instances[i].userCalls <= 1
             /\ instances[i].sessCalls <= 1
             /\ instances[i].ops = 0 =>
                   /\ instances[i].userCalls = 0
                   /\ instances[i].sessCalls = 0
                   /\ ~instances[i].cached)
    /\ [][\A i \in Instances :
             instances[i].cached =>
                 /\ instances'[i]._messages = instances[i]._messages
                 /\ instances'[i].userCalls = instances[i].userCalls
                 /\ instances'[i].sessCalls = instances[i].sessCalls
                 /\ instances'[i].ops > instances[i].ops =>
                       /\ exc' = NoException
                       /\ observed'.messages = instances[i]._messages]_vars

C5_Witness ==
    \E i \in Instances :
        /\ instances[i].ops >= 2
        /\ instances[i].userCalls = 1
        /\ instances[i].sessCalls = 1
        /\ Len(instances[i]._messages) >= 2
        /\ observed.inst = i
        /\ observed.messages = instances[i]._messages

\* C6: no processor and no operation on the messages value raises, and a
\* missing attribute gives the safe default.
C6_NeverRaises ==
    /\ exc = NoException
    /\ ("user" \in DOMAIN context /\ "user" \notin creq.attrs) =>
          context["user"] = <<"AnonymousUser">>
    /\ ("LANGUAGE_CODE" \in DOMAIN context /\ "LANGUAGE_CODE" \notin creq.attrs) =>
          context["LANGUAGE_CODE"] = <<settings.LANGUAGE_CODE>>

====
